---------------------------- MODULE Spec2Model ----------------------------
(***************************************************************************)
(* A model of the wayland protocol scanner: src/scanner.py (the generator  *)
(* that writes the per-protocol units and proto.zig) and src/scan2.py (its *)
(* rewrite, which resolves enum references across the loaded documents).   *)
(*                                                                         *)
(* Text is modelled as sequences of one-character strings, so that prefix, *)
(* split and first-character tests are computed as the code computes them. *)
(***************************************************************************)
EXTENDS Integers, Sequences, FiniteSets, TLC

(***************************************************************************)
(* Python string and list primitives used by the code.                     *)
(***************************************************************************)

\* s[:n] of Python (n >= 0)
Take(s, n) ==
    SubSeq(s, 1, IF n < Len(s) THEN n ELSE Len(s))

\* s[n:] of Python (n >= 0)
Drop(s, n) ==
    SubSeq(s, n + 1, Len(s))

\* str.startswith
StartsWith(s, p) ==
    /\ Len(p) <= Len(s)
    /\ SubSeq(s, 1, Len(p)) = p

\* str.removeprefix
RemovePrefix(s, p) ==
    IF StartsWith(s, p) THEN Drop(s, Len(p)) ELSE s

\* index of the first occurrence of the character c in s, 0 when there is none
IndexOf(s, c) ==
    IF \E i \in 1..Len(s) : s[i] = c
    THEN CHOOSE i \in 1..Len(s) : s[i] = c /\ \A j \in 1..(i - 1) : s[j] # c
    ELSE 0

\* str.split(c): the list of the parts of s between the occurrences of c
RECURSIVE Split(_, _)
Split(s, c) ==
    IF IndexOf(s, c) = 0
    THEN <<s>>
    ELSE <<Take(s, IndexOf(s, c) - 1)>> \o Split(Drop(s, IndexOf(s, c)), c)

\* c.join(parts)
RECURSIVE Join(_, _)
Join(parts, c) ==
    IF Len(parts) = 0 THEN <<>>
    ELSE IF Len(parts) = 1 THEN parts[1]
    ELSE parts[1] \o <<c>> \o Join(Tail(parts), c)

\* the concatenation of a list of lists
RECURSIVE Flatten(_)
Flatten(ss) ==
    IF Len(ss) = 0 THEN <<>> ELSE ss[1] \o Flatten(Tail(ss))

\* [f(x) for x in s]
MapSeq(s, F(_)) ==
    [i \in 1..Len(s) |-> F(s[i])]

\* the set of the elements of a list
Range(s) ==
    {s[i] : i \in 1..Len(s)}

\* every list over S of length at most n
SeqsUpTo(S, n) ==
    UNION {[1..k -> S] : k \in 0..n}

Digits ==
    {"0", "1", "2", "3", "4", "5", "6", "7", "8", "9"}

LowerLetters ==
    {"a", "b", "c", "d", "e", "f", "g", "h", "i", "j", "k", "l", "m",
     "n", "o", "p", "q", "r", "s", "t", "u", "v", "w", "x", "y", "z"}

UpperLetters ==
    {"A", "B", "C", "D", "E", "F", "G", "H", "I", "J", "K", "L", "M",
     "N", "O", "P", "Q", "R", "S", "T", "U", "V", "W", "X", "Y", "Z"}

\* str.isalpha on one character, and the class [a-zA-Z] (ASCII documents)
IsAlpha(c) ==
    c \in LowerLetters \cup UpperLetters

(***************************************************************************)
(* Program constants.                                                      *)
(***************************************************************************)

\* scanner.py: deprecated, scan2.py: deprecated_interfaces
deprecated ==
    { <<"w","l","_","s","h","e","l","l">>,
      <<"w","l","_","s","h","e","l","l","_","s","u","r","f","a","c","e">> }

\* scanner.py: substitutions
substitutions ==
    { <<"a","s","y","n","c">>,
      <<"c","o","n","s","t">>,
      <<"e","r","r","o","r">>,
      <<"e","x","p","o","r","t">>,
      <<"s","t","r","u","c","t">>,
      <<"t","e","s","t">>,
      <<"t","y","p","e">>,
      <<"v","a","r">> }

\* scan2.py: disallowed_words
disallowed_words ==
    { <<"a","d","d","r","s","p","a","c","e">>,
      <<"a","l","i","g","n">>,
      <<"a","l","l","o","w","z","e","r","o">>,
      <<"a","n","d">>,
      <<"a","n","y","e","r","r","o","r">>,
      <<"a","n","y","f","r","a","m","e">>,
      <<"a","n","y","o","p","a","q","u","e">>,
      <<"a","n","y","t","y","p","e">>,
      <<"a","s","m">>,
      <<"a","s","y","n","c">>,
      <<"a","w","a","i","t">>,
      <<"b","o","o","l">>,
      <<"b","r","e","a","k">>,
      <<"c","_","c","h","a","r">>,
      <<"c","_","i","n","t">>,
      <<"c","_","l","o","n","g">>,
      <<"c","_","l","o","n","g","d","o","u","b","l","e">>,
      <<"c","_","l","o","n","g","l","o","n","g">>,
      <<"c","_","s","h","o","r","t">>,
      <<"c","_","u","i","n","t">>,
      <<"c","_","u","l","o","n","g">>,
      <<"c","_","u","l","o","n","g","l","o","n","g">>,
      <<"c","_","u","s","h","o","r","t">>,
      <<"c","a","l","l","c","o","n","v">>,
      <<"c","a","t","c","h">>,
      <<"c","o","m","p","t","i","m","e">>,
      <<"c","o","m","p","t","i","m","e","_","f","l","o","a","t">>,
      <<"c","o","m","p","t","i","m","e","_","i","n","t">>,
      <<"c","o","n","s","t">>,
      <<"c","o","n","t","i","n","u","e">>,
      <<"d","e","f","e","r">>,
      <<"e","l","s","e">>,
      <<"e","n","u","m">>,
      <<"e","r","r","d","e","f","e","r">>,
      <<"e","r","r","o","r">>,
      <<"e","x","p","o","r","t">>,
      <<"e","x","t","e","r","n">>,
      <<"f","1","2","8">>,
      <<"f","1","6">>,
      <<"f","3","2">>,
      <<"f","6","4">>,
      <<"f","8","0">>,
      <<"f","a","l","s","e">>,
      <<"f","n">>,
      <<"f","o","r">>,
      <<"i","f">>,
      <<"i","n","l","i","n","e">>,
      <<"i","s","i","z","e">>,
      <<"l","i","n","k","s","e","c","t","i","o","n">>,
      <<"n","o","a","l","i","a","s">>,
      <<"n","o","i","n","l","i","n","e">>,
      <<"n","o","r","e","t","u","r","n">>,
      <<"n","o","s","u","s","p","e","n","d">>,
      <<"n","u","l","l">>,
      <<"o","p","a","q","u","e">>,
      <<"o","r">>,
      <<"o","r","e","l","s","e">>,
      <<"p","a","c","k","e","d">>,
      <<"p","u","b">>,
      <<"r","e","s","u","m","e">>,
      <<"r","e","t","u","r","n">>,
      <<"s","t","d">>,
      <<"s","t","r","u","c","t">>,
      <<"s","u","s","p","e","n","d">>,
      <<"s","w","i","t","c","h">>,
      <<"t","e","s","t">>,
      <<"t","h","r","e","a","d","l","o","c","a","l">>,
      <<"t","r","u","e">>,
      <<"t","r","y">>,
      <<"t","y","p","e">>,
      <<"t","y","p","e","s">>,
      <<"u","n","d","e","f","i","n","e","d">>,
      <<"u","n","i","o","n">>,
      <<"u","n","r","e","a","c","h","a","b","l","e">>,
      <<"u","s","i","n","g","n","a","m","e","s","p","a","c","e">>,
      <<"u","s","i","z","e">>,
      <<"v","a","r">>,
      <<"v","o","i","d">>,
      <<"v","o","l","a","t","i","l","e">>,
      <<"w","h","i","l","e">> }

\* scanner.py: typesubstitutions, scan2.py: type_mapping
typesubstitutions ==
    [ array |-> "types.Array", int |-> "i32", fixed |-> "f64",
      new_id |-> "u32", object |-> "u32", string |-> "types.String",
      uint |-> "u32" ]

(***************************************************************************)
(* Identifier Sanitizer.                                                   *)
(***************************************************************************)

\* scanner.py rename(name, namespace); name[0] needs a non-empty name
rename(name, namespace) ==
    IF name \in substitutions \/ ~IsAlpha(name[1])
    THEN namespace \o <<"_">> \o name
    ELSE name

\* re.match('^[iu][0-9]+$', word)
IsIntTypeName(word) ==
    /\ Len(word) >= 2
    /\ word[1] \in {"i", "u"}
    /\ \A k \in 2..Len(word) : word[k] \in Digits

\* scan2.py isAllowed(word)
isAllowed(word) ==
    IF word \in disallowed_words THEN FALSE
    ELSE IF IsIntTypeName(word) THEN FALSE
    ELSE IF Len(word) > 0 /\ ~IsAlpha(word[1]) THEN FALSE
    ELSE TRUE

\* scan2.py rename(element, tree), given element.attrib['name'] and
\* getNamespace(tree)
rename2(name, namespace) ==
    LET cut == RemovePrefix(name, namespace \o <<"_">>)
    IN  IF ~isAllowed(cut) THEN namespace \o <<"_">> \o cut ELSE cut

(***************************************************************************)
(* Namespace Resolver.                                                     *)
(***************************************************************************)

\* the first position at which the names do not all carry the same
\* character (enumerate(zip(*strs)) stops at the shortest name); 0 when the
\* names agree on all of the shortest name's positions
Divergence(strs) ==
    LET n == CHOOSE m \in {Len(strs[k]) : k \in 1..Len(strs)} :
                 \A k \in 1..Len(strs) : m <= Len(strs[k])
        differs(i) == \E k \in 1..Len(strs) : strs[k][i] # strs[1][i]
    IN  IF \E i \in 1..n : differs(i)
        THEN CHOOSE i \in 1..n : differs(i) /\ \A j \in 1..(i - 1) : ~differs(j)
        ELSE 0

\* min(strs, key=len): the first of the shortest names
Shortest(strs) ==
    strs[CHOOSE k \in 1..Len(strs) :
            /\ \A j \in 1..Len(strs) : Len(strs[k]) <= Len(strs[j])
            /\ \A j \in 1..(k - 1) : Len(strs[j]) > Len(strs[k])]

\* scanner.py commonPrefix(strs)
commonPrefix(strs) ==
    IF Len(strs) = 0 THEN <<>>
    ELSE IF Divergence(strs) # 0 THEN Take(strs[1], Divergence(strs) - 1)
    ELSE Shortest(strs)

\* scanner.py protocol(): commonPrefix([...interface names...]).split('_')[0]
namespaceOf(names) ==
    Split(commonPrefix(names), "_")[1]

\* scan2.py getNamespace(tree), given the names of tree.iter('interface')
getNamespace(names) ==
    IF Len(names) = 0 THEN <<>>
    ELSE IF Divergence(names) # 0
         THEN Split(Take(names[1], Divergence(names) - 1), "_")[1]
         ELSE Split(Shortest(names), "_")[1]

(***************************************************************************)
(* Enum/Bitfield Compiler.  An entry value (int(e.attrib['value'], 0), a    *)
(* non-negative integer of any size) is modelled by the set of the         *)
(* positions of its one bits: 12 is {2, 3}, 0 is {}, 2^32 is {32}.         *)
(***************************************************************************)

\* width of the record: scanner.py bitfield(), "padding = 32 - ..."
WordBits ==
    32

\* the largest element of a non-empty set of integers
MaxOf(S) ==
    CHOOSE m \in S : \A x \in S : x <= m

\* int(log2(value)) for value >= 1
Log2Floor(value) ==
    MaxOf(value)

\* a bitfield compiler that takes every non-zero value for a single bit
IsPowerOfTwo_AnyValue(value) ==
    TRUE

\* not (2 ** int(log2(value)) != value), for value >= 1
IsPowerOfTwo(value) ==
    value = {Log2Floor(value)}

\* a < b as integers
ValueLess(a, b) ==
    /\ a # b
    /\ MaxOf((a \ b) \cup (b \ a)) \in b

\* list.sort(key=...) is stable: an entry goes behind the entries whose
\* value is not larger
RECURSIVE InsertByValue(_, _)
InsertByValue(e, sorted) ==
    IF Len(sorted) = 0 THEN <<e>>
    ELSE IF ValueLess(e.value, sorted[Len(sorted)].value)
         THEN Append(InsertByValue(e, SubSeq(sorted, 1, Len(sorted) - 1)),
                     sorted[Len(sorted)])
         ELSE Append(sorted, e)

\* entries.sort(key = lambda e: int(e.attrib['value'], 0))
RECURSIVE SortByValue(_)
SortByValue(entries) ==
    IF Len(entries) = 0 THEN <<>>
    ELSE InsertByValue(entries[Len(entries)],
                       SortByValue(SubSeq(entries, 1, Len(entries) - 1)))

\* f'_: u{padding},'
PadLine(padding) ==
    [name |-> <<"_">>, type |-> "u", width |-> padding]

\* f'{name}: bool,'
BoolLine(name) ==
    [name |-> name, type |-> "bool", width |-> 1]

\* int(log2(value / prev)) - 1; prev is 0.5 or a power of two and is kept as
\* its exponent log2(prev), -1 for 0.5
PaddingBefore(value, prev) ==
    (Log2Floor(value) - prev) - 1

\* 32 - int(log2(prev)) - 1
PaddingAfter(prev) ==
    WordBits - prev - 1

\* the loop of scanner.py bitfield() over the sorted entries from position i
\* on, and the final padding
RECURSIVE BitfieldLoop(_, _, _, _, _)
BitfieldLoop(entries, namespace, i, lines, prev) ==
    IF i > Len(entries)
    THEN IF PaddingAfter(prev) # 0
         THEN Append(lines, PadLine(PaddingAfter(prev)))
         ELSE lines
    ELSE LET value == entries[i].value
         IN  IF value = {} THEN BitfieldLoop(entries, namespace, i + 1, lines, prev)
             ELSE IF ~IsPowerOfTwo(value)
                  THEN BitfieldLoop(entries, namespace, i + 1, lines, prev)
             ELSE BitfieldLoop(entries, namespace, i + 1,
                      Append(IF PaddingBefore(value, prev) # 0
                             THEN Append(lines, PadLine(PaddingBefore(value, prev)))
                             ELSE lines,
                             BoolLine(rename(entries[i].name, namespace))),
                      Log2Floor(value))

\* scanner.py bitfield(element, namespace): the fields of the packed struct
bitfield(entries, namespace) ==
    BitfieldLoop(SortByValue(entries), namespace, 1, <<>>, -1)

(***************************************************************************)
(* Document Discovery.  A search root is a record of what its globs find:  *)
(* core is whether <root>/wayland.xml exists, and stable, staging and      *)
(* unstable are the stems of the files under that subtree in the order     *)
(* glob lists them.  A found file is [root, dir, stem], root being the     *)
(* position of its search root on the command line.                        *)
(***************************************************************************)

\* re.match('^(unstable)|(v[0-9]+)$', part): the part begins with
\* "unstable", or the whole part is v<digits>
unneeded(part) ==
    \/ StartsWith(part, <<"u","n","s","t","a","b","l","e">>)
    \/ /\ Len(part) >= 2
       /\ part[1] = "v"
       /\ \A k \in 2..Len(part) : part[k] \in Digits

\* the test of filtername, for SelectSeq
needed(part) ==
    ~unneeded(part)

\* '-'.join(part for part in name.split('-') if not unneeded(part))
filtername(name) ==
    Join(SelectSeq(Split(name, "-"), needed), "-")

\* hasStableVersion(f), given the stems of the stable files of the root
hasStableVersion(stem, stable) ==
    filtername(stem) \in {filtername(stable[k]) : k \in 1..Len(stable)}

\* the files of one class of root r
FilesOf(r, dir, stems) ==
    [k \in 1..Len(stems) |-> [root |-> r, dir |-> dir, stem |-> stems[k]]]

\* the unstable files that have no stable version
unstableKept(search) ==
    LET keep(stem) == ~hasStableVersion(stem, search.stable)
    IN  SelectSeq(search.unstable, keep)

\* a discovery that lists the staging documents before the unstable ones
find_protocols_StagingFirst(r, search) ==
    (IF search.core THEN FilesOf(r, "core", <<<<"w","a","y","l","a","n","d">>>>) ELSE <<>>)
        \o FilesOf(r, "stable", search.stable)
        \o FilesOf(r, "staging", search.staging)
        \o FilesOf(r, "unstable", unstableKept(search))

\* find_protocols(search) for the r-th search root: core + stable + unstable
\* + staging
find_protocols(r, search) ==
    (IF search.core THEN FilesOf(r, "core", <<<<"w","a","y","l","a","n","d">>>>) ELSE <<>>)
        \o FilesOf(r, "stable", search.stable)
        \o FilesOf(r, "unstable", unstableKept(search))
        \o FilesOf(r, "staging", search.staging)

\* main(): files = [p for path in args for p in find_protocols(Path(path))]
discover(args) ==
    Flatten([r \in 1..Len(args) |-> find_protocols(r, args[r])])

(***************************************************************************)
(* Schema documents.  A parsed document is                                 *)
(*   [tag, name, interfaces], an interface [name, requests, events, enums],*)
(*   a request or event [name, args], an enum [name, bitfield, entries],   *)
(*   an entry [name, value],                                               *)
(* and an argument is the record of its attributes: name and type, and     *)
(* enum and interface when the element carries them.  A field of an        *)
(* emitted argument structure is [name, type, path]: type is the target    *)
(* type of a primitive ("" otherwise) and path the dotted path of an enum  *)
(* type (<<>> for a primitive).                                            *)
(***************************************************************************)

LowerSeq ==
    <<"a", "b", "c", "d", "e", "f", "g", "h", "i", "j", "k", "l", "m",
      "n", "o", "p", "q", "r", "s", "t", "u", "v", "w", "x", "y", "z">>

UpperSeq ==
    <<"A", "B", "C", "D", "E", "F", "G", "H", "I", "J", "K", "L", "M",
      "N", "O", "P", "Q", "R", "S", "T", "U", "V", "W", "X", "Y", "Z">>

ToUpper(c) ==
    IF c \in LowerLetters
    THEN UpperSeq[CHOOSE k \in 1..Len(LowerSeq) : LowerSeq[k] = c]
    ELSE c

ToLower(c) ==
    IF c \in UpperLetters
    THEN LowerSeq[CHOOSE k \in 1..Len(UpperSeq) : UpperSeq[k] = c]
    ELSE c

\* str.title(): a letter is upper case behind a non-letter and at the
\* start, lower case behind a letter
Title(w) ==
    [k \in 1..Len(w) |->
        IF k = 1 \/ ~IsAlpha(w[k - 1]) THEN ToUpper(w[k]) ELSE ToLower(w[k])]

\* scanner.py initCaps(string)
initCaps(string) ==
    LET parts == Split(string, "_")
    IN  Flatten([k \in 1..Len(parts) |-> Title(parts[k])])

\* a field of primitive type
PrimField(name, type) ==
    [name |-> name, type |-> type, path |-> <<>>]

\* a field whose type is an enum, named by a dotted path
EnumField(name, path) ==
    [name |-> name, type |-> "", path |-> path]

\* scanner.py linkEnum(enum, namespace); "protocol, enum = parts" needs at
\* most one dot in the reference
linkEnum(enum, namespace) ==
    LET parts == Split(enum, ".")
    IN  IF Len(parts) = 1
        THEN <<initCaps(enum)>>
        ELSE <<RemovePrefix(parts[1], namespace \o <<"_">>), initCaps(parts[2])>>

\* the three fields of a new_id argument without an interface attribute
NewIdFields(name) ==
    << PrimField(<<"i","n","t","e","r","f","a","c","e">>, typesubstitutions["string"]),
       PrimField(<<"v","e","r","s","i","o","n">>, typesubstitutions["uint"]),
       PrimField(name, typesubstitutions["new_id"]) >>

\* an argument compiler that emits a field for a file descriptor
argument_FdField(element, namespace) ==
    <<PrimField(element.name, "u32")>>

\* scanner.py argument(element, namespace): the fields the argument adds
argument(element, namespace) ==
    IF element.type = "fd" THEN <<>>
    ELSE IF element.type = "uint" /\ "enum" \in DOMAIN element
         THEN <<EnumField(element.name, linkEnum(element.enum, namespace))>>
    ELSE IF element.type = "new_id" /\ "interface" \notin DOMAIN element
         THEN NewIdFields(element.name)
    ELSE <<PrimField(element.name, typesubstitutions[element.type])>>

\* scanner.py method(element, namespace): the fields of the struct
method(element, namespace) ==
    Flatten([k \in 1..Len(element.args) |-> argument(element.args[k], namespace)])

\* scanner.py enumEntry(element, namespace)
enumEntry(element, namespace) ==
    [name |-> rename(element.name, namespace), value |-> element.value]

\* scanner.py enum(element, namespace)
enum(element, namespace) ==
    IF element.bitfield
    THEN [packed |-> TRUE, members |-> bitfield(element.entries, namespace)]
    ELSE [packed |-> FALSE,
          members |-> [k \in 1..Len(element.entries) |->
                          enumEntry(element.entries[k], namespace)]]

\* scanner.py interface(element, namespace) raises
interfaceRaises(element, namespace) ==
    ~StartsWith(element.name, namespace \o <<"_">>)

\* scanner.py interface(element, namespace): the emitted struct
interface(element, namespace) ==
    [ name |-> RemovePrefix(element.name, namespace \o <<"_">>),
      request |-> [k \in 1..Len(element.requests) |->
                      rename(element.requests[k].name, namespace)],
      event |-> [k \in 1..Len(element.events) |->
                    rename(element.events[k].name, namespace)],
      rq |-> [k \in 1..Len(element.requests) |->
                 [name |-> rename(element.requests[k].name, namespace),
                  fields |-> method(element.requests[k], namespace)]],
      ev |-> [k \in 1..Len(element.events) |->
                 [name |-> rename(element.events[k].name, namespace),
                  fields |-> method(element.events[k], namespace)]],
      enums |-> [k \in 1..Len(element.enums) |->
                    [name |-> initCaps(rename(element.enums[k].name, namespace)),
                     body |-> enum(element.enums[k], namespace)]] ]

\* the names of the interface children of a root
InterfaceNames(root) ==
    [k \in 1..Len(root.interfaces) |-> root.interfaces[k].name]

\* whether an interface is not on the deprecated list
NotDeprecated(element) ==
    element.name \notin deprecated

\* the interfaces protocol() compiles: child.attrib['name'] not in
\* deprecated
Compiled(root) ==
    SelectSeq(root.interfaces, NotDeprecated)

\* an index that lists the deprecated interfaces too
Indexed_All(root) ==
    root.interfaces

\* the interfaces main() adds to the index: i.attrib['name'] not in
\* deprecated
Indexed(root) ==
    SelectSeq(root.interfaces, NotDeprecated)

\* scanner.py protocol(root): the namespace
protocolNamespace(root) ==
    namespaceOf(InterfaceNames(root))

\* scanner.py protocol(root): what it prints before it returns or raises
protocolWarnings(root) ==
    IF root.tag = "protocol" /\ protocolNamespace(root) = <<>>
    THEN <<[kind |-> "Warning", name |-> root.name,
            text |-> "protocol has no namespace"]>>
    ELSE <<>>

\* scanner.py protocol(root): the exception it raises, "" when it returns
protocolRaises(root) ==
    IF root.tag # "protocol" THEN "root is not a protocol"
    ELSE IF \E k \in 1..Len(Compiled(root)) :
                interfaceRaises(Compiled(root)[k], protocolNamespace(root))
         THEN "interface does not start with namespace"
    ELSE ""

\* scanner.py protocol(root): the unit, written to <name>.zig
protocol(root) ==
    [ file |-> root.name,
      interfaces |-> [k \in 1..Len(Compiled(root)) |->
                         interface(Compiled(root)[k], protocolNamespace(root))] ]

\* main(): the tuples (root name, namespace, interface name) added to
\* interfaces for a compiled document
indexTuples(root) ==
    [k \in 1..Len(Indexed(root)) |->
        [f |-> root.name, n |-> protocolNamespace(root), i |-> Indexed(root)[k].name]]

\* an index whose types are named by the full interface name
eventType_FullName(t) ==
    <<t.f, t.i, <<"e","v","e","n","t">>>>

\* scanner.py handler(f, n, i, 'event') and the map entry of main(): the
\* path f.<i without the namespace prefix>.event
eventType(t) ==
    <<t.f, IF t.n # <<>> THEN RemovePrefix(t.i, t.n \o <<"_">>) ELSE t.i,
      <<"e","v","e","n","t">>>>

\* main(): the text of proto.zig, given the order in which the set of the
\* document names is iterated
indexUnit(tuples, imports) ==
    [ imports |-> imports,
      Interface |-> <<<<"i","n","v","a","l","i","d">>>>
                      \o [k \in 1..Len(tuples) |-> tuples[k].i],
      map |-> <<[key |-> <<"i","n","v","a","l","i","d">>, type |-> <<>>]>>
                \o [k \in 1..Len(tuples) |->
                       [key |-> tuples[k].i, type |-> eventType(tuples[k])]],
      Events |-> <<[key |-> <<"i","n","v","a","l","i","d">>, type |-> <<>>]>>
                   \o [k \in 1..Len(tuples) |->
                          [key |-> tuples[k].i, type |-> eventType(tuples[k])]] ]

(***************************************************************************)
(* scan2.py: the Cross-Document Reference Resolver and the emitter.        *)
(***************************************************************************)

\* the positions (t, k) of the interfaces named name in the trees whose
\* root is a protocol
InterfacesNamed(name, trees) ==
    {tk \in UNION {{<<t, k>> : k \in 1..Len(trees[t].interfaces)} : t \in 1..Len(trees)} :
        /\ trees[tk[1]].tag = "protocol"
        /\ trees[tk[1]].interfaces[tk[2]].name = name}

\* next(...) over "for tree in trees ... for interface in tree.iter(...)":
\* the first position in document order
FirstPosition(S) ==
    CHOOSE tk \in S : \A other \in S :
        \/ tk[1] < other[1]
        \/ tk[1] = other[1] /\ tk[2] <= other[2]

\* the first enum of the interface with that name, 0 when it has none
EnumNamed(name, element) ==
    IF \E k \in 1..Len(element.enums) : element.enums[k].name = name
    THEN CHOOSE k \in 1..Len(element.enums) :
            /\ element.enums[k].name = name
            /\ \A j \in 1..(k - 1) : element.enums[j].name # name
    ELSE 0

\* scan2.py findEnumDefinition(definition, interface): fatal when it exits,
\* else tree (0 for None), the interface and the enum it returns
findEnumDefinition(definition, element, trees) ==
    LET parts == Split(definition, ".")
        qualified == Len(parts) > 1
        found == InterfacesNamed(parts[Len(parts) - 1], trees)
    IN  IF qualified /\ found = {}
        THEN [fatal |-> TRUE, tree |-> 0, interface |-> element, enum |-> 0]
        ELSE LET t == IF qualified THEN FirstPosition(found)[1] ELSE 0
                 target == IF qualified
                           THEN trees[t].interfaces[FirstPosition(found)[2]]
                           ELSE element
                 e == EnumNamed(parts[Len(parts)], target)
             IN  [fatal |-> e = 0, tree |-> t, interface |-> target, enum |-> e]

\* scan2.py getNamespace(tree) of a parsed tree
treeNamespace(tree) ==
    getNamespace(InterfaceNames(tree))

\* scan2.py genSingleArgument: whether it ends the run
argumentFatal(element, parent, trees) ==
    /\ element.type # "fd"
    /\ element.type = "uint"
    /\ "enum" \in DOMAIN element
    /\ findEnumDefinition(element.enum, parent, trees).fatal

\* scan2.py genSingleArgument(argument, interface, tree): the fields the
\* argument adds, when the call returns
genSingleArgument(element, parent, tree, trees) ==
    LET name == rename2(element.name, treeNamespace(tree))
    IN  IF element.type = "fd" THEN <<>>
        ELSE IF element.type = "uint" /\ "enum" \in DOMAIN element
             THEN LET def == findEnumDefinition(element.enum, parent, trees)
                      from == IF def.tree # 0 THEN trees[def.tree] ELSE tree
                      fetch == IF def.tree # 0 THEN trees[def.tree].name ELSE <<>>
                  IN  <<EnumField(name,
                          << fetch,
                             rename2(def.interface.name, treeNamespace(from)),
                             rename2(def.interface.enums[def.enum].name,
                                     treeNamespace(from)) >>)>>
        ELSE IF element.type = "new_id" /\ "interface" \notin DOMAIN element
             THEN NewIdFields(name)
        ELSE <<PrimField(name, typesubstitutions[element.type])>>

\* scan2.py genSingleRequest / genSingleEvent: the fields of the struct
genSingleMessage(element, parent, tree, trees) ==
    Flatten([k \in 1..Len(element.args) |->
                genSingleArgument(element.args[k], parent, tree, trees)])

\* scan2.py genSingleInterface(interface, tree)
genSingleInterface(element, tree, trees) ==
    LET ns == treeNamespace(tree)
    IN  [ name |-> rename2(element.name, ns),
          request |-> [k \in 1..Len(element.requests) |->
                          rename2(element.requests[k].name, ns)],
          event |-> [k \in 1..Len(element.events) |->
                        rename2(element.events[k].name, ns)],
          rq |-> [k \in 1..Len(element.requests) |->
                     [name |-> rename2(element.requests[k].name, ns),
                      fields |-> genSingleMessage(element.requests[k], element, tree, trees)]],
          ev |-> [k \in 1..Len(element.events) |->
                     [name |-> rename2(element.events[k].name, ns),
                      fields |-> genSingleMessage(element.events[k], element, tree, trees)]],
          enums |-> <<>> ]

\* scan2.py genSingleZig(tree): the unit main() prints
genSingleZig(tree, trees) ==
    [ file |-> <<>>,
      interfaces |-> [k \in 1..Len(tree.interfaces) |->
                         genSingleInterface(tree.interfaces[k], tree, trees)] ]

\* the arguments of an interface in the order genSingleInterface reaches
\* them: those of its requests, then those of its events
InterfaceArgs(element) ==
    Flatten([k \in 1..Len(element.requests) |-> element.requests[k].args])
        \o Flatten([k \in 1..Len(element.events) |-> element.events[k].args])

\* the enum references of a tree at which genSingleZig exits, in the order
\* it reaches them
fatalReferences(tree, trees) ==
    Flatten([k \in 1..Len(tree.interfaces) |->
        LET element == tree.interfaces[k]
            fatal(a) == argumentFatal(a, element, trees)
            ref(a) == a.enum
        IN  MapSeq(SelectSeq(InterfaceArgs(element), fatal), ref)])

(***************************************************************************)
(* State.  Each component of the pipeline is exercised by a specification  *)
(* of its own; the variables of the other components stay at their idle    *)
(* values.                                                                 *)
(***************************************************************************)

\* Identifier Sanitizer: an identifier, a namespace, and the results of
\* renaming the identifier again and again with scanner.py's and with
\* scan2.py's rename
VARIABLES sanName, sanNs, sanScanner, sanScan2

\* Namespace Resolver: the interface names of a document, and the namespace
\* scanner.py's protocol() and scan2.py's getNamespace infer (<<>> before
\* the call, <<namespace>> after it)
VARIABLES nsNames, nsScanner, nsScan2

\* Enum/Bitfield Compiler: the entries of a bitfield enum, the namespace of
\* its document, and the fields bitfield() emits (<<>> before the call,
\* <<fields>> after it)
VARIABLES bfEntries, bfNs, bfLines

\* Document Discovery: the search roots of the command line, the files
\* main() found, the position of main()'s loop over them (0 before the
\* discovery) and the files parsed so far, in order
VARIABLES dArgs, dFiles, dPos, dParsed

\* A run of one of the two programs over the parsed documents (in
\* discovery order): the program, the documents, the position of main()'s
\* loop, the units emitted so far (each with the position of its
\* document), scanner.py's list interfaces, what was printed to stdout and
\* to stderr, proto.zig (<<>> until written), and where the run is:
\* "loop", "done" (exit code 0) or "fatal" (exit code 1)
VARIABLES cProg, cDocs, cPos, cUnits, cIfaces, cOut, cErr, cIndex, cPc

sanVars ==
    <<sanName, sanNs, sanScanner, sanScan2>>

cVars ==
    <<cProg, cDocs, cPos, cUnits, cIfaces, cOut, cErr, cIndex, cPc>>

dVars ==
    <<dArgs, dFiles, dPos, dParsed>>

bfVars ==
    <<bfEntries, bfNs, bfLines>>

nsVars ==
    <<nsNames, nsScanner, nsScan2>>

vars ==
    <<sanVars, nsVars, bfVars, dVars, cVars>>

SanIdle ==
    /\ sanName = <<>>
    /\ sanNs = <<>>
    /\ sanScanner = <<>>
    /\ sanScan2 = <<>>

NsIdle ==
    /\ nsNames = <<>>
    /\ nsScanner = <<>>
    /\ nsScan2 = <<>>

BfIdle ==
    /\ bfEntries = <<>>
    /\ bfNs = <<>>
    /\ bfLines = <<>>

DIdle ==
    /\ dArgs = <<>>
    /\ dFiles = <<>>
    /\ dPos = 0
    /\ dParsed = <<>>

CIdle ==
    /\ cProg = ""
    /\ cDocs = <<>>
    /\ cPos = 0
    /\ cUnits = <<>>
    /\ cIfaces = <<>>
    /\ cOut = <<>>
    /\ cErr = <<>>
    /\ cIndex = <<>>
    /\ cPc = ""

(***************************************************************************)
(* Specification of the Identifier Sanitizer: rename applied to an         *)
(* identifier and then to its own results.                                 *)
(***************************************************************************)

\* longest identifier drawn exhaustively from SanAlphabet
MaxNameLen ==
    5

\* "or" is reserved in scan2.py, "_" is the separator, "1" a non-alphabetic
\* first character
SanAlphabet ==
    {"o", "r", "_", "1"}

\* identifiers of the protocols and of the reserved-word sets
SanExtraNames ==
    { <<"v","a","r">>,
      <<"e","r","r","o","r">>,
      <<"t","y","p","e">>,
      <<"u","1">>,
      <<"i","3","2">>,
      <<"w","l","_","e","r","r","o","r">>,
      <<"w","l","_","d","i","s","p","l","a","y">>,
      <<"w","l","_","w","l","_","d","i","s","p","l","a","y">> }

SanNames ==
    (SeqsUpTo(SanAlphabet, MaxNameLen) \ {<<>>}) \cup SanExtraNames

\* namespaces are first tokens of interface names: they hold no "_"
SanNamespaces ==
    {<<>>, <<"o">>, <<"r">>, <<"w","l">>}

SanInit ==
    /\ sanName \in SanNames
    /\ sanNs \in SanNamespaces
    /\ sanScanner = <<>>
    /\ sanScan2 = <<>>
    /\ NsIdle
    /\ BfIdle
    /\ DIdle
    /\ CIdle

\* the identifier the next call of rename is given
SanInput(results) ==
    IF Len(results) = 0 THEN sanName ELSE results[Len(results)]

\* scanner.py: rename(name, namespace), on the name and then on its result
ScannerRename ==
    /\ Len(sanScanner) < 2
    /\ sanScanner' = Append(sanScanner, rename(SanInput(sanScanner), sanNs))
    /\ UNCHANGED <<sanName, sanNs, sanScan2, nsVars, bfVars, dVars, cVars>>

\* scan2.py: rename(element, tree), on the name and then on its result
Scan2Rename ==
    /\ Len(sanScan2) < 2
    /\ sanScan2' = Append(sanScan2, rename2(SanInput(sanScan2), sanNs))
    /\ UNCHANGED <<sanName, sanNs, sanScanner, nsVars, bfVars, dVars, cVars>>

SanNext ==
    \/ ScannerRename
    \/ Scan2Rename

SpecSanitize ==
    SanInit /\ [][SanNext]_vars

\* C1: sanitization is idempotent: renaming the result of rename again, with
\* the same namespace, gives the same result, for scanner.py's rename and
\* for scan2.py's rename
C1_Idempotent ==
    /\ Len(sanScanner) = 2 => sanScanner[2] = sanScanner[1]
    /\ Len(sanScan2) = 2 => sanScan2[2] = sanScan2[1]

\* C1 for scanner.py's rename alone
C1_ScannerIdempotent ==
    Len(sanScanner) = 2 => sanScanner[2] = sanScanner[1]

\* C1 for scan2.py's rename alone
C1_Scan2Idempotent ==
    Len(sanScan2) = 2 => sanScan2[2] = sanScan2[1]

(***************************************************************************)
(* Specification of the Namespace Resolver: the namespace inferred from    *)
(* the interface names of one document.                                    *)
(***************************************************************************)

\* longest interface name drawn exhaustively from NsAlphabet
MaxIfaceNameLen ==
    3

\* most interfaces of the document
MaxIfaces ==
    2

NsAlphabet ==
    {"w", "x", "_"}

\* the names of the specification's examples
NsExtraNames ==
    { <<"w","l","_","d","i","s","p","l","a","y">>,
      <<"w","l","_","r","e","g","i","s","t","r","y">>,
      <<"x","d","g","_","s","u","r","f","a","c","e">>,
      <<"w","l","r","_","a">>,
      <<"w","l","x","_","b">> }

NsNameUniverse ==
    (SeqsUpTo(NsAlphabet, MaxIfaceNameLen) \ {<<>>}) \cup NsExtraNames

NsInit ==
    /\ nsNames \in SeqsUpTo(NsNameUniverse, MaxIfaces)
    /\ nsScanner = <<>>
    /\ nsScan2 = <<>>
    /\ SanIdle
    /\ BfIdle
    /\ DIdle
    /\ CIdle

\* scanner.py protocol(): namespace = commonPrefix([...]).split('_')[0]
ScannerNamespace ==
    /\ nsScanner = <<>>
    /\ nsScanner' = <<namespaceOf(nsNames)>>
    /\ UNCHANGED <<nsNames, nsScan2, sanVars, bfVars, dVars, cVars>>

\* scan2.py getNamespace(tree)
Scan2Namespace ==
    /\ nsScan2 = <<>>
    /\ nsScan2' = <<getNamespace(nsNames)>>
    /\ UNCHANGED <<nsNames, nsScanner, sanVars, bfVars, dVars, cVars>>

NsNext ==
    \/ ScannerNamespace
    \/ Scan2Namespace

SpecNamespace ==
    NsInit /\ [][NsNext]_vars

\* the first underscore-delimited token of a name
FirstToken(name) ==
    Split(name, "_")[1]

\* the namespace the specification asks for: the first token all the names
\* share, and the empty namespace when they share none or there are no names
WholeWordNamespace(names) ==
    IF Len(names) > 0 /\ \A k \in 1..Len(names) : FirstToken(names[k]) = FirstToken(names[1])
    THEN FirstToken(names[1])
    ELSE <<>>

\* C8: the inferred namespace is a whole word: the first token shared by
\* all the interface names, and empty when their first tokens differ (even
\* if they share leading characters) or when there are no interfaces
C8_WholeWord ==
    /\ Len(nsScanner) = 1 => nsScanner[1] = WholeWordNamespace(nsNames)
    /\ Len(nsScan2) = 1 => nsScan2[1] = WholeWordNamespace(nsNames)

\* what does hold: names that share their first token get it as namespace
C8_SharedToken ==
    (Len(nsNames) > 0 /\ \A k \in 1..Len(nsNames) : FirstToken(nsNames[k]) = FirstToken(nsNames[1]))
        => /\ Len(nsScanner) = 1 => nsScanner[1] = FirstToken(nsNames[1])
           /\ Len(nsScan2) = 1 => nsScan2[1] = FirstToken(nsNames[1])

\* scanner.py and scan2.py infer the same namespace
NsAgree ==
    (Len(nsScanner) = 1 /\ Len(nsScan2) = 1) => nsScanner[1] = nsScan2[1]

(***************************************************************************)
(* Specification of the Enum/Bitfield Compiler: bitfield() applied to the  *)
(* entries of one bitfield enum.                                           *)
(***************************************************************************)

\* most entries of the enum
MaxEntries ==
    4

\* 0, the bits 0, 1, 2, 3, the combination masks 3 and 12, and the bits
\* around the width of the record
BfValues ==
    { {}, {0}, {1}, {2}, {3}, {0, 1}, {2, 3},
      {WordBits - 2}, {WordBits - 1}, {WordBits} }

\* the entries of an enum carry different names: the first one a reserved
\* word, the others "aa", "aaa", ...
BfNameAt(i) ==
    IF i = 1 THEN <<"v","a","r">> ELSE [k \in 1..i |-> "a"]

BfInit ==
    /\ bfEntries \in {[i \in 1..Len(vs) |-> [name |-> BfNameAt(i), value |-> vs[i]]] :
                        vs \in SeqsUpTo(BfValues, MaxEntries)}
    /\ bfNs = <<"w","l">>
    /\ bfLines = <<>>
    /\ SanIdle
    /\ NsIdle
    /\ DIdle
    /\ CIdle

\* scanner.py: bitfield(element, namespace)
BitfieldCompile ==
    /\ bfLines = <<>>
    /\ bfLines' = <<bitfield(bfEntries, bfNs)>>
    /\ UNCHANGED <<bfEntries, bfNs, sanVars, nsVars, dVars, cVars>>

BfNext ==
    BitfieldCompile

SpecBitfield ==
    BfInit /\ [][BfNext]_vars

\* the sum of the widths of the first n fields
RECURSIVE WidthOf(_, _)
WidthOf(lines, n) ==
    IF n = 0 THEN 0 ELSE WidthOf(lines, n - 1) + lines[n].width

\* C2: the widths of the emitted fields (1 per boolean, n >= 1 per padding
\* field u<n>) sum to exactly 32, whatever the entry values
C2_Width32 ==
    Len(bfLines) = 1 =>
        /\ \A i \in 1..Len(bfLines[1]) : bfLines[1][i].width >= 1
        /\ WidthOf(bfLines[1], Len(bfLines[1])) = WordBits

\* the offset of each field: the sum of the widths of the fields before it
Offsets(lines) ==
    [i \in 1..Len(lines) |-> WidthOf(lines, i - 1)]

\* the entries that keep a field: their value is 2^k for one k
Surviving(entries) ==
    {j \in 1..Len(entries) : Cardinality(entries[j].value) = 1}

\* the k of a surviving entry of value 2^k
BitOf(entry) ==
    CHOOSE k \in entry.value : TRUE

\* C3: the record has a boolean field at offset k exactly for each entry of
\* value 2^k (as many fields as entries, under the entry's sanitized name),
\* in ascending order; zero and non-power-of-two entries give no field;
\* every other bit of the record is covered by anonymous padding, which is
\* emitted only for a gap
C3_Layout ==
    Len(bfLines) = 1 =>
        LET lines == bfLines[1]
            offs == Offsets(lines)
            bools == {i \in 1..Len(lines) : lines[i].type = "bool"}
            pads == (1..Len(lines)) \ bools
            alive == Surviving(bfEntries)
            fields(k, name) == {i \in bools : offs[i] = k /\ lines[i].name = name}
            entries(k, name) == {h \in alive : /\ BitOf(bfEntries[h]) = k
                                               /\ rename(bfEntries[h].name, bfNs) = name}
        IN  /\ \A i \in bools :
                  Cardinality(fields(offs[i], lines[i].name))
                      = Cardinality(entries(offs[i], lines[i].name))
            /\ \A h \in alive :
                  LET k == BitOf(bfEntries[h])
                      name == rename(bfEntries[h].name, bfNs)
                  IN  Cardinality(fields(k, name)) = Cardinality(entries(k, name))
            /\ \A i \in bools : \A j \in bools : i < j => offs[i] <= offs[j]
            /\ \A i \in pads :
                  /\ lines[i].type = "u"
                  /\ lines[i].name = <<"_">>
                  /\ lines[i].width # 0
                  /\ i > 1 => (i - 1) \in bools
            /\ \A b \in 0..(WordBits - 1) :
                  (\E h \in alive : BitOf(bfEntries[h]) = b)
                      # (\E i \in pads : offs[i] <= b /\ b < offs[i] + lines[i].width)

\* C3 witness: the entries 1, 2, 4, 12 compiled to three boolean fields at
\* bits 0, 1, 2 and a padding field of 29 bits
C3_Witness ==
    /\ Len(bfLines) = 1
    /\ Len(bfEntries) = 4
    /\ [i \in 1..4 |-> bfEntries[i].value] = <<{0}, {1}, {2}, {2, 3}>>
    /\ [i \in 1..Len(bfLines[1]) |-> bfLines[1][i].width] = <<1, 1, 1, 29>>
    /\ [i \in 1..Len(bfLines[1]) |-> bfLines[1][i].type] = <<"bool", "bool", "bool", "u">>

(***************************************************************************)
(* Specification of Document Discovery: main() lists the files of its      *)
(* search roots and parses them in the order of the list.                  *)
(***************************************************************************)

\* most search roots on the command line
MaxRoots ==
    2

Stem_foo ==
    <<"f","o","o">>

Stem_bar ==
    <<"b","a","r">>

Stem_foo_unstable_v2 ==
    <<"f","o","o","-","u","n","s","t","a","b","l","e","-","v","2">>

Stem_baz_unstable_v1 ==
    <<"b","a","z","-","u","n","s","t","a","b","l","e","-","v","1">>

Stem_foo_unstablex ==
    <<"f","o","o","-","u","n","s","t","a","b","l","e","x">>

Stem_ext_v1 ==
    <<"e","x","t","-","v","1">>

\* what the globs of a search root can list
SearchRoots ==
    [ core : BOOLEAN,
      stable : { <<>>, <<Stem_foo>>, <<Stem_bar, Stem_foo>> },
      unstable : { <<>>, <<Stem_baz_unstable_v1, Stem_foo_unstable_v2>>,
                   <<Stem_foo_unstablex>> },
      staging : { <<>>, <<Stem_ext_v1>> } ]

DInit ==
    /\ dArgs \in SeqsUpTo(SearchRoots, MaxRoots)
    /\ dFiles = <<>>
    /\ dPos = 0
    /\ dParsed = <<>>
    /\ SanIdle
    /\ NsIdle
    /\ BfIdle
    /\ CIdle

\* main(): files = [p for path in args for p in find_protocols(Path(path))]
Discover ==
    /\ dPos = 0
    /\ dFiles' = discover(dArgs)
    /\ dPos' = 1
    /\ UNCHANGED <<dArgs, dParsed, sanVars, nsVars, bfVars, cVars>>

\* main(): one turn of "for file in files: tree = ET.parse(file)"
ParseNext ==
    /\ dPos >= 1
    /\ dPos <= Len(dFiles)
    /\ dParsed' = Append(dParsed, dFiles[dPos])
    /\ dPos' = dPos + 1
    /\ UNCHANGED <<dArgs, dFiles, sanVars, nsVars, bfVars, cVars>>

DNext ==
    \/ Discover
    \/ ParseNext

SpecDiscovery ==
    DInit /\ [][DNext]_vars

\* whether a part is a version marker v<digits>
IsVersionMarker(part) ==
    /\ Len(part) >= 2
    /\ part[1] = "v"
    /\ \A k \in 2..Len(part) : part[k] \in Digits

\* whether a part is not the literal segment "unstable"
NotUnstableSegment(part) ==
    part # <<"u","n","s","t","a","b","l","e">>

\* the normalization the specification describes: the stem without a
\* trailing version marker and without the literal segment "unstable"
NormalizedStem(stem) ==
    LET parts == Split(stem, "-")
        cut == IF IsVersionMarker(parts[Len(parts)])
               THEN SubSeq(parts, 1, Len(parts) - 1)
               ELSE parts
    IN  Join(SelectSeq(cut, NotUnstableSegment), "-")

\* every file the globs of the search roots list
FilesOnDisk ==
    UNION { Range(FilesOf(r, "stable", dArgs[r].stable))
              \cup Range(FilesOf(r, "unstable", dArgs[r].unstable))
              \cup Range(FilesOf(r, "staging", dArgs[r].staging))
              \cup (IF dArgs[r].core
                    THEN {[root |-> r, dir |-> "core", stem |-> <<"w","a","y","l","a","n","d">>]}
                    ELSE {}) : r \in 1..Len(dArgs) }

\* C6: the discovery result holds no unstable document whose normalized
\* filename equals that of a stable document of the result, and it holds
\* every other document the roots contain
C6_Dedup ==
    dPos >= 1 =>
        LET found == Range(dFiles)
            stableNames == {NormalizedStem(f.stem) : f \in {g \in found : g.dir = "stable"}}
        IN  /\ \A f \in found :
                  f.dir = "unstable" => NormalizedStem(f.stem) \notin stableNames
            /\ \A f \in FilesOnDisk :
                  (f.dir # "unstable" \/ NormalizedStem(f.stem) \notin stableNames)
                      => f \in found

\* C6 within one search root: the unstable documents kept are those whose
\* normalized filename no stable document of the same root has
C6_DedupSameRoot ==
    dPos >= 1 =>
        \A f \in FilesOnDisk :
            f.dir = "unstable" =>
                (f \in Range(dFiles)) =
                    (NormalizedStem(f.stem) \notin
                        {NormalizedStem(s) : s \in Range(dArgs[f.root].stable)})

\* the place of a class in the order core, stable, unstable, staging
ClassRank(dir) ==
    CASE dir = "core" -> 1
      [] dir = "stable" -> 2
      [] dir = "unstable" -> 3
      [] dir = "staging" -> 4

\* C7 as stated: in the list of documents no document of a later class
\* precedes a document of an earlier class, and the documents are parsed in
\* the order of the list
C7_ClassOrder ==
    /\ \A i \in 1..Len(dFiles) : \A j \in 1..Len(dFiles) :
          i < j => ClassRank(dFiles[i].dir) <= ClassRank(dFiles[j].dir)
    /\ dPos >= 1 => dParsed = SubSeq(dFiles, 1, dPos - 1)

\* C7 amended: the documents of an earlier search root precede those of a
\* later one; among the documents of one root no document of a later class
\* precedes a document of an earlier class; the documents are parsed in the
\* order of the list
C7_ClassOrderPerRoot ==
    /\ \A i \in 1..Len(dFiles) : \A j \in 1..Len(dFiles) :
          i < j =>
              /\ dFiles[i].root <= dFiles[j].root
              /\ dFiles[i].root = dFiles[j].root
                    => ClassRank(dFiles[i].dir) <= ClassRank(dFiles[j].dir)
    /\ dPos >= 1 => dParsed = SubSeq(dFiles, 1, dPos - 1)

\* C7 witness: two roots, every found document parsed, and a staging
\* document of the first root ahead of a stable document of the second
C7_Witness ==
    /\ Len(dArgs) = 2
    /\ dPos = Len(dFiles) + 1
    /\ dParsed = dFiles
    /\ \E i \in 1..Len(dFiles) : \E j \in 1..Len(dFiles) :
          /\ i < j
          /\ dFiles[i].root = 1 /\ dFiles[i].dir = "staging"
          /\ dFiles[j].root = 2 /\ dFiles[j].dir = "stable"
    /\ \E i \in 1..Len(dFiles) : \E j \in 1..Len(dFiles) :
          /\ i < j
          /\ dFiles[i].root = 1 /\ dFiles[j].root = 1
          /\ dFiles[i].dir = "unstable" /\ dFiles[j].dir = "staging"

(***************************************************************************)
(* Specification of a run: main() of scanner.py or of scan2.py over the    *)
(* parsed documents.  zig fmt, types.zig and the copyright header do not   *)
(* depend on the documents' interfaces and are left out.                   *)
(***************************************************************************)

\* most documents of a run
MaxDocs ==
    2

N_wl_surface ==
    <<"w","l","_","s","u","r","f","a","c","e">>

N_wl_seat ==
    <<"w","l","_","s","e","a","t">>

N_wl_shell ==
    <<"w","l","_","s","h","e","l","l">>

N_wlr_a ==
    <<"w","l","r","_","a">>

N_wlx_b ==
    <<"w","l","x","_","b">>

N_xdg_b ==
    <<"x","d","g","_","b">>

N_wl_error ==
    <<"w","l","_","e","r","r","o","r">>

N_error ==
    <<"e","r","r","o","r">>

N_flags ==
    <<"f","l","a","g","s">>

N_attach ==
    <<"a","t","t","a","c","h">>

N_fd ==
    <<"f","d">>

N_id ==
    <<"i","d">>

N_serial ==
    <<"s","e","r","i","a","l">>

N_mode ==
    <<"m","o","d","e">>

N_name ==
    <<"n","a","m","e">>

Ref_error ==
    <<"e","r","r","o","r">>

Ref_wl_surface_error ==
    <<"w","l","_","s","u","r","f","a","c","e",".","e","r","r","o","r">>

Ref_nope_error ==
    <<"n","o","p","e",".","e","r","r","o","r">>

\* arguments of every kind the emitters tell apart
A_fd ==
    [name |-> N_fd, type |-> "fd"]

A_new ==
    [name |-> N_id, type |-> "new_id"]

A_newif ==
    [name |-> N_id, type |-> "new_id", interface |-> N_wl_surface]

A_uint ==
    [name |-> N_serial, type |-> "uint"]

A_string ==
    [name |-> N_name, type |-> "string"]

A_enumLocal ==
    [name |-> N_mode, type |-> "uint", enum |-> Ref_error]

A_enumQualified ==
    [name |-> N_mode, type |-> "uint", enum |-> Ref_wl_surface_error]

A_enumNope ==
    [name |-> N_mode, type |-> "uint", enum |-> Ref_nope_error]

A_intEnum ==
    [name |-> N_mode, type |-> "int", enum |-> Ref_error]

A_intEnumNope ==
    [name |-> N_mode, type |-> "int", enum |-> Ref_nope_error]

ArgLists ==
    { <<>>, <<A_fd>>, <<A_new>>, <<A_newif>>, <<A_uint, A_fd, A_new>>,
      <<A_enumLocal>>, <<A_enumQualified>>, <<A_enumNope>>, <<A_intEnum>>,
      <<A_intEnumNope>> }

\* enum "error", and the bitfield "flags" with the entries 1, 2, 4, 12
E_error ==
    [name |-> N_error, bitfield |-> FALSE,
     entries |-> <<[name |-> N_name, value |-> {0}]>>]

E_flags ==
    [name |-> N_flags, bitfield |-> TRUE,
     entries |-> << [name |-> N_fd, value |-> {0}], [name |-> N_id, value |-> {1}],
                    [name |-> N_mode, value |-> {2}], [name |-> N_name, value |-> {2, 3}] >>]

\* an interface with the request "attach" and the event "error"
Iface(name, enums, requestArgs, eventArgs) ==
    [ name |-> name,
      requests |-> <<[name |-> N_attach, args |-> requestArgs]>>,
      events |-> <<[name |-> N_error, args |-> eventArgs]>>,
      enums |-> enums ]

Doc(tag, name, interfaces) ==
    [tag |-> tag, name |-> name, interfaces |-> interfaces]

\* the documents of a run: wl_surface with each list of request arguments;
\* wl_surface without its enum; a reference from another document; names
\* that share "wl" without sharing a token; names that share nothing; a
\* deprecated interface; no interface; a root that is not a protocol; a
\* bitfield; an interface whose name without the namespace is a keyword;
\* wl_surface and its enum once more, in a document of another name
DocCatalog ==
    { Doc("protocol", <<"p">>, <<Iface(N_wl_surface, <<E_error>>, args, <<A_fd, A_string>>)>>) :
          args \in ArgLists }
    \cup
    { Doc("protocol", <<"q">>, <<Iface(N_wl_surface, <<>>, <<>>, <<>>)>>),
      Doc("protocol", <<"r">>, <<Iface(N_wl_seat, <<>>, <<A_enumQualified>>, <<>>)>>),
      Doc("protocol", <<"s">>, <<Iface(N_wlr_a, <<>>, <<>>, <<>>), Iface(N_wlx_b, <<>>, <<>>, <<>>)>>),
      Doc("protocol", <<"t">>, <<Iface(N_wl_surface, <<>>, <<>>, <<>>), Iface(N_xdg_b, <<>>, <<>>, <<>>)>>),
      Doc("protocol", <<"u">>, <<Iface(N_wl_seat, <<E_error>>, <<>>, <<>>), Iface(N_wl_shell, <<>>, <<>>, <<>>)>>),
      Doc("protocol", <<"v">>, <<>>),
      Doc("other", <<"w">>, <<Iface(N_wl_surface, <<E_error>>, <<>>, <<>>)>>),
      Doc("protocol", <<"x">>, <<Iface(N_wl_seat, <<E_flags>>, <<A_string>>, <<A_uint>>)>>),
      Doc("protocol", <<"y">>, <<Iface(N_wl_error, <<E_error>>, <<>>, <<>>)>>),
      Doc("protocol", <<"z">>, <<Iface(N_wl_surface, <<E_error>>, <<>>, <<>>)>>) }

CInit ==
    /\ cProg \in {"scanner.py", "scan2.py"}
    /\ cDocs \in SeqsUpTo(DocCatalog, MaxDocs)
    /\ cPos = 1
    /\ cUnits = <<>>
    /\ cIfaces = <<>>
    /\ cOut = <<>>
    /\ cErr = <<>>
    /\ cIndex = <<>>
    /\ cPc = "loop"
    /\ SanIdle
    /\ NsIdle
    /\ BfIdle
    /\ DIdle

\* scanner.py main(): a turn of the loop for a document protocol() compiles
ScannerCompile ==
    /\ cProg = "scanner.py" /\ cPc = "loop" /\ cPos <= Len(cDocs)
    /\ protocolRaises(cDocs[cPos]) = ""
    /\ cOut' = cOut \o protocolWarnings(cDocs[cPos])
    /\ cUnits' = Append(cUnits, [doc |-> cPos, unit |-> protocol(cDocs[cPos])])
    /\ cIfaces' = cIfaces \o indexTuples(cDocs[cPos])
    /\ cPos' = cPos + 1
    /\ UNCHANGED <<cProg, cDocs, cErr, cIndex, cPc, sanVars, nsVars, bfVars, dVars>>

\* scanner.py main(): a turn of the loop for a document protocol() raises
\* on: print(f"Error: Invalid wayland file - {e}"); continue
ScannerSkip ==
    /\ cProg = "scanner.py" /\ cPc = "loop" /\ cPos <= Len(cDocs)
    /\ protocolRaises(cDocs[cPos]) # ""
    /\ cOut' = cOut \o protocolWarnings(cDocs[cPos])
                    \o <<[kind |-> "Error", name |-> <<>>,
                          text |-> protocolRaises(cDocs[cPos])]>>
    /\ cPos' = cPos + 1
    /\ UNCHANGED <<cProg, cDocs, cUnits, cIfaces, cErr, cIndex, cPc,
                   sanVars, nsVars, bfVars, dVars>>

\* the orders in which a set can be iterated
Orders(S) ==
    {s \in [1..Cardinality(S) -> S] : \A a \in 1..Cardinality(S) :
        \A b \in 1..Cardinality(S) : s[a] = s[b] => a = b}

\* scanner.py main(): after the loop, proto.zig; the imports iterate over
\* the set { f for f, _, _ in interfaces }
ScannerIndex ==
    /\ cProg = "scanner.py" /\ cPc = "loop" /\ cPos > Len(cDocs)
    /\ \E imports \in Orders({cIfaces[k].f : k \in 1..Len(cIfaces)}) :
          cIndex' = <<indexUnit(cIfaces, imports)>>
    /\ cPc' = "done"
    /\ UNCHANGED <<cProg, cDocs, cPos, cUnits, cIfaces, cOut, cErr,
                   sanVars, nsVars, bfVars, dVars>>

\* scan2.py main(): print(genSingleZig(tree)) for a tree whose enum
\* references findEnumDefinition finds
Scan2Emit ==
    /\ cProg = "scan2.py" /\ cPc = "loop" /\ cPos <= Len(cDocs)
    /\ fatalReferences(cDocs[cPos], cDocs) = <<>>
    /\ cUnits' = Append(cUnits, [doc |-> cPos, unit |-> genSingleZig(cDocs[cPos], cDocs)])
    /\ cPos' = cPos + 1
    /\ UNCHANGED <<cProg, cDocs, cIfaces, cOut, cErr, cIndex, cPc,
                   sanVars, nsVars, bfVars, dVars>>

\* scan2.py findEnumDefinition(): print(f"scan2.py: fatal: Unable to find
\* definition for {definition}", file=stderr); exit(1)
Scan2Fatal ==
    /\ cProg = "scan2.py" /\ cPc = "loop" /\ cPos <= Len(cDocs)
    /\ fatalReferences(cDocs[cPos], cDocs) # <<>>
    /\ cErr' = Append(cErr, [kind |-> "fatal",
                             name |-> fatalReferences(cDocs[cPos], cDocs)[1],
                             text |-> "Unable to find definition for"])
    /\ cPc' = "fatal"
    /\ UNCHANGED <<cProg, cDocs, cPos, cUnits, cIfaces, cOut, cIndex,
                   sanVars, nsVars, bfVars, dVars>>

\* scan2.py main(): the loop is over and main() returns
Scan2Finish ==
    /\ cProg = "scan2.py" /\ cPc = "loop" /\ cPos > Len(cDocs)
    /\ cPc' = "done"
    /\ UNCHANGED <<cProg, cDocs, cPos, cUnits, cIfaces, cOut, cErr, cIndex,
                   sanVars, nsVars, bfVars, dVars>>

CNext ==
    \/ ScannerCompile
    \/ ScannerSkip
    \/ ScannerIndex
    \/ Scan2Emit
    \/ Scan2Fatal
    \/ Scan2Finish

SpecCompile ==
    CInit /\ [][CNext]_vars

(***************************************************************************)
(* Claims about a run.                                                     *)
(***************************************************************************)

\* the document a unit was emitted for
UnitDoc(u) ==
    cDocs[cUnits[u].doc]

\* the interfaces of that document the unit has a struct for, in order
UnitSources(u) ==
    IF cProg = "scanner.py" THEN Compiled(UnitDoc(u)) ELSE UnitDoc(u).interfaces

\* the identifier the program writes for an argument of that document
FieldName(name, u) ==
    IF cProg = "scanner.py" THEN name
    ELSE rename2(name, treeNamespace(UnitDoc(u)))

\* every request and event of the document, with the struct emitted for it
MessagePairs(u) ==
    UNION { { [src |-> UnitSources(u)[k].requests[m],
               out |-> cUnits[u].unit.interfaces[k].rq[m]] :
                  m \in 1..Len(UnitSources(u)[k].requests) }
            \cup
            { [src |-> UnitSources(u)[k].events[m],
               out |-> cUnits[u].unit.interfaces[k].ev[m]] :
                  m \in 1..Len(UnitSources(u)[k].events) } :
            k \in 1..Len(UnitSources(u)) }

\* whether the path of a field of unit u names an enum that a loaded
\* document declares
PathResolves(path, u) ==
    \E d \in 1..Len(cDocs) :
        /\ IF path[1] = <<>> THEN d = cUnits[u].doc ELSE cDocs[d].name = path[1]
        /\ \E k \in 1..Len(cDocs[d].interfaces) :
              /\ rename2(cDocs[d].interfaces[k].name, treeNamespace(cDocs[d])) = path[2]
              /\ \E e \in 1..Len(cDocs[d].interfaces[k].enums) :
                    rename2(cDocs[d].interfaces[k].enums[e].name,
                            treeNamespace(cDocs[d])) = path[3]

\* the enum references of the arguments of a document
EnumReferences(doc) ==
    { a.enum : a \in { x \in UNION { Range(InterfaceArgs(doc.interfaces[k])) :
                                        k \in 1..Len(doc.interfaces) } :
                          "enum" \in DOMAIN x } }

\* C4: in a run of scan2.py every argument that carries an enum reference,
\* whatever its primitive type, is emitted as a field whose type is an enum
\* that a loaded document declares, or the run ends at that document with a
\* diagnostic naming the reference and no later document is emitted; no
\* such argument is emitted with a primitive type.
C4_NoSilentFallback ==
    cProg = "scan2.py" =>
        /\ \A u \in 1..Len(cUnits) : \A p \in MessagePairs(u) :
              \A a \in 1..Len(p.src.args) :
                  "enum" \in DOMAIN p.src.args[a] =>
                      \E f \in 1..Len(p.out.fields) :
                          /\ p.out.fields[f].name = FieldName(p.src.args[a].name, u)
                          /\ p.out.fields[f].path # <<>>
                          /\ PathResolves(p.out.fields[f].path, u)
        /\ cPc = "fatal" =>
              /\ Len(cErr) = 1
              /\ cErr[1].name \in EnumReferences(cDocs[cPos])
              /\ \A u \in 1..Len(cUnits) : cUnits[u].doc < cPos

\* whether a loaded protocol document declares the interface and the enum
\* a qualified reference names
Declared(ref) ==
    LET parts == Split(ref, ".")
    IN  \E d \in 1..Len(cDocs) :
            /\ cDocs[d].tag = "protocol"
            /\ \E k \in 1..Len(cDocs[d].interfaces) :
                  /\ cDocs[d].interfaces[k].name = parts[Len(parts) - 1]
                  /\ \E e \in 1..Len(cDocs[d].interfaces[k].enums) :
                        cDocs[d].interfaces[k].enums[e].name = parts[Len(parts)]

\* C5: a run of scan2.py fails on a qualified enum reference "I.E" only
\* when no loaded document has an interface named I with an enum named E,
\* whatever the order of the documents.
C5_QualifiedResolves ==
    (cProg = "scan2.py" /\ cPc = "fatal" /\ Len(Split(cErr[1].name, ".")) > 1)
        => ~Declared(cErr[1].name)

\* the names of the fields an argument contributes, by its kind
Contribution(arg, u) ==
    IF arg.type = "fd" THEN <<>>
    ELSE IF arg.type = "new_id" /\ "interface" \notin DOMAIN arg
         THEN <<<<"i","n","t","e","r","f","a","c","e">>, <<"v","e","r","s","i","o","n">>, FieldName(arg.name, u)>>
    ELSE <<FieldName(arg.name, u)>>

\* C9: in every emitted unit of either program the fields of a request or
\* event are, in argument declaration order, no field for a file
\* descriptor, the three fields interface, version, id for a new_id
\* without an interface attribute, and one field for any other argument.
C9_FieldsByKind ==
    \A u \in 1..Len(cUnits) : \A p \in MessagePairs(u) :
        [f \in 1..Len(p.out.fields) |-> p.out.fields[f].name]
            = Flatten([a \in 1..Len(p.src.args) |-> Contribution(p.src.args[a], u)])

\* a finished run that emitted a message with an unsigned, a file
\* descriptor and a new_id argument as four fields
C9_Witness ==
    /\ cPc = "done"
    /\ \E u \in 1..Len(cUnits) : \E p \in MessagePairs(u) :
          /\ p.src.args = <<A_uint, A_fd, A_new>>
          /\ Len(p.out.fields) = 4

\* whether a name is not on the deprecated list
Current(name) ==
    name \notin deprecated

\* whether every name counts
Every(name) ==
    TRUE

\* "invalid", then the interfaces of the compiled documents that pass the
\* filter, in document then declaration order
Members(Keep(_)) ==
    <<<<"i","n","v","a","l","i","d">>>> \o
        Flatten([u \in 1..Len(cUnits) |-> SelectSeq(InterfaceNames(UnitDoc(u)), Keep)])

\* the index of a finished run of scanner.py: the enumeration is the
\* members, the lookup table and the tagged union have the same keys, and
\* every key but "invalid" maps to the path <document>.<struct>.event of
\* the struct emitted for that interface in the unit of its document
IndexIs(members) ==
    (cProg = "scanner.py" /\ cPc = "done") =>
        LET index == cIndex[1]
        IN  /\ index.Interface = members
            /\ [j \in 1..Len(index.map) |-> index.map[j].key] = members
            /\ [j \in 1..Len(index.Events) |-> index.Events[j].key] = members
            /\ index.map = index.Events
            /\ \A j \in 2..Len(index.map) :
                  \E u \in 1..Len(cUnits) : \E k \in 1..Len(UnitSources(u)) :
                      /\ UnitSources(u)[k].name = index.map[j].key
                      /\ index.map[j].type =
                            << cUnits[u].unit.file, cUnits[u].unit.interfaces[k].name,
                               <<"e","v","e","n","t">> >>

ValidIdentifier(id) ==
    /\ id # <<>>
    /\ IsAlpha(id[1]) \/ id[1] = "_"
    /\ id \notin disallowed_words
    /\ ~IsIntTypeName(id)

\* the namespace the program infers for the document of a unit
UnitNamespace(u) ==
    IF cProg = "scanner.py" THEN protocolNamespace(UnitDoc(u))
    ELSE treeNamespace(UnitDoc(u))

\* the name the sanitizer is to give: <namespace>_<name> for a reserved
\* word or a name that does not start with a letter, the name otherwise
Sanitized(name, ns) ==
    IF name \in disallowed_words \/ IsIntTypeName(name) \/ ~IsAlpha(name[1])
    THEN ns \o <<"_">> \o name
    ELSE name

\* the interface, request, event and enum entry identifiers of a unit
UnitIdentifiers(u) ==
    LET ifs == cUnits[u].unit.interfaces
    IN  UNION { {ifs[k].name} \cup Range(ifs[k].request) \cup Range(ifs[k].event)
                \cup UNION { { ifs[k].enums[e].body.members[j].name :
                                 j \in { i \in 1..Len(ifs[k].enums[e].body.members) :
                                           ifs[k].enums[e].body.packed =>
                                             ifs[k].enums[e].body.members[i].type = "bool" } } :
                             e \in 1..Len(ifs[k].enums) } :
                k \in 1..Len(ifs) }

\* C11: every interface, request, event and enum entry identifier of an
\* emitted unit is a valid identifier of the target language (no reserved
\* word, no digit or other non-letter first), and a request or event whose
\* name is reserved or starts with a non-letter is emitted as
\* <namespace>_<name>, any other unchanged.
C11_ValidIdentifiers ==
    \A u \in 1..Len(cUnits) :
        /\ \A id \in UnitIdentifiers(u) : ValidIdentifier(id)
        /\ \A p \in MessagePairs(u) :
              p.out.name = Sanitized(p.src.name, UnitNamespace(u))

\* C12: a document whose root is not a protocol is skipped silently: no
\* unit is emitted for it, none of its interfaces is in the index, nothing
\* is printed about it, and a finished run of scanner.py has written the
\* index.
C12_SilentSkip ==
    \A d \in 1..Len(cDocs) : cDocs[d].tag # "protocol" =>
        /\ \A u \in 1..Len(cUnits) : cUnits[u].doc # d
        /\ \A k \in 1..Len(cIfaces) : cIfaces[k].f # cDocs[d].name
        /\ \A o \in 1..Len(cOut) : cOut[o].text # "root is not a protocol"
        /\ (cProg = "scanner.py" /\ cPc = "done") => Len(cIndex) = 1

\* C13: compilation is deterministic: the index a run of scanner.py
\* writes is the index every run over the same documents writes, the order
\* of its import lines included (the per-document units and the other
\* parts of the index are functions of the documents in every action).
C13_Deterministic ==
    [][ (cProg = "scanner.py" /\ cPc = "loop" /\ cPc' = "done") =>
            \A imports \in Orders({cIfaces[k].f : k \in 1..Len(cIfaces)}) :
                cIndex' = <<indexUnit(cIfaces, imports)>> ]_vars

\* whether a document declares the interface and the enum a qualified
\* reference names
DeclaredIn(doc, ref) ==
    LET parts == Split(ref, ".")
    IN  \E k \in 1..Len(doc.interfaces) :
            /\ doc.interfaces[k].name = parts[Len(parts) - 1]
            /\ \E e \in 1..Len(doc.interfaces[k].enums) :
                  doc.interfaces[k].enums[e].name = parts[Len(parts)]

\* the fields of a message that were emitted for its arguments that are
\* unsigned and carry the enum reference
FieldsFor(p, ref, u) ==
    { p.out.fields[f] : f \in { i \in 1..Len(p.out.fields) :
        \E a \in 1..Len(p.src.args) :
            /\ p.src.args[a].type = "uint"
            /\ "enum" \in DOMAIN p.src.args[a]
            /\ p.src.args[a].enum = ref
            /\ p.out.fields[i].name = FieldName(p.src.args[a].name, u) } }

\* C14: in a unit emitted by scan2.py an unqualified enum reference names
\* an enum of the referencing interface (no import), and a qualified
\* reference "I.E" names the enum of the referencing argument's own
\* document whenever that document declares I with E, also when a document
\* discovered earlier declares them too.
C14_OwnDocumentFirst ==
    cProg = "scan2.py" =>
        \A u \in 1..Len(cUnits) : \A p \in MessagePairs(u) :
            \A ref \in EnumReferences(UnitDoc(u)) : \A field \in FieldsFor(p, ref, u) :
                /\ Len(Split(ref, ".")) = 1 => field.path[1] = <<>>
                /\ (Len(Split(ref, ".")) > 1 /\ DeclaredIn(UnitDoc(u), ref))
                      => field.path[1] = UnitDoc(u).name

\* C15: a protocol document whose inferred namespace is empty gets a
\* warning from scanner.py and is still compiled: its unit is emitted with
\* a struct for each of its interfaces; it is never dropped.
C15_EmptyNamespaceCompiles ==
    cProg = "scanner.py" =>
        \A d \in 1..Len(cDocs) :
            (d < cPos /\ cDocs[d].tag = "protocol" /\ protocolNamespace(cDocs[d]) = <<>>) =>
                /\ \E o \in 1..Len(cOut) :
                      cOut[o].kind = "Warning" /\ cOut[o].name = cDocs[d].name
                /\ \E u \in 1..Len(cUnits) :
                      /\ cUnits[u].doc = d
                      /\ Len(cUnits[u].unit.interfaces) = Len(Compiled(cDocs[d]))

====
